---- MODULE Spec2Model ----
(***************************************************************************)
(* Model of the finance_notifier alert engine: the two orchestrators       *)
(* run_once (src/app/core.py) and run_agent_once (src/agent/stock_agent.py)*)
(* sweeping a ticker list, the corridor state kept in the JSON state file  *)
(* (src/app/state.py) and the collaborators they call (price, news,        *)
(* advisory LLM, ntfy dispatch).  One ticker iteration is split at the     *)
(* points where it touches the outside world: evaluation (price, news,     *)
(* advisory), notify_ntfy, the in-memory write and save_state.             *)
(*                                                                         *)
(* Percentages are integers (one unit = one percent).                      *)
(***************************************************************************)
EXTENDS Integers, Sequences, FiniteSets, TLC

\* ------------------------------------------------------------- bounds --
MaxDelta == 2
MaxThreshold == 2
MaxTickers == 2
MaxEsc == 2
MaxFeed == 2
MaxLimit == 2
MaxTime == 3

\* ----------------------------------------------------------- universe --
Tickers == {"AAPL", "MSFT"}
Directions == {"up", "down", "none"}
Breakouts == {"up", "down"}
\* value of one key of the mapping; "absent" = the key is not in the dict
Entries == Directions \cup {"absent"}
Mappings == [Tickers -> Entries]
EmptyMapping == [t \in Tickers |-> "absent"]
\* the state file: a JSON object (form "object", its content in data), or
\* no file, a file that cannot be read, one that does not parse, one whose
\* JSON is not an object
FileForms == {"object", "missing", "unreadable", "badjson", "nondict"}
JsonFile(m) == [form |-> "object", data |-> m]
BrokenFile(f) == [form |-> f, data |-> EmptyMapping]
BrokenFiles == {BrokenFile(f) : f \in FileForms \ {"object"}}
Files == {JsonFile(m) : m \in Mappings} \cup BrokenFiles
Deltas == (0 - MaxDelta)..MaxDelta
Thresholds == 1..MaxThreshold
\* test_cfg force_delta_pct: not in effect, or the forced percentage
NoForce == [set |-> FALSE, pct |-> 0]
Forces == {NoForce, [set |-> TRUE, pct |-> MaxDelta]}
Abs(x) == IF x < 0 THEN 0 - x ELSE x
\* threshold_pct as a configuration file may give it: any sign
AnyThresholds == (0 - MaxThreshold)..MaxThreshold

RECURSIVE SeqsUpTo(_)
SeqsUpTo(n) ==
    IF n = 0 THEN {<<>>}
    ELSE LET S == SeqsUpTo(n - 1)
         IN  S \cup {Append(s, t) : s \in {x \in S : Len(x) = n - 1}, t \in Tickers}
TickerLists == SeqsUpTo(MaxTickers)
\* ticker lists of the runs: any list, or when the history of one ticker is
\* followed, the lists made of that ticker
RunLists(w) ==
    IF w = "-" THEN TickerLists
    ELSE {tl \in TickerLists : \A k \in 1..Len(tl) : tl[k] = w}

\* get_open_and_last: raises, or returns (open, last); open may be 0
PriceOutcomes ==
    {[ok |-> FALSE, open |-> 0, last |-> 0],
     [ok |-> TRUE, open |-> 0, last |-> 100]}
    \cup [ok : {TRUE}, open : {100}, last : {100 + d : d \in Deltas}]
\* headline stage of one iteration: raises, or yields no / some headlines
NewsOutcomes == {"raise", "empty", "some"}
\* reply of the advisory LLM: the call or the JSON parse raises, the JSON
\* has no send_alert key, or send_alert is true / false
AdvisoryReplies == {"raise", "omit", "send", "decline"}
\* the headline stage runs only when news is enabled, the LLM is asked only
\* when a client exists
NewsFor(on) == IF on THEN NewsOutcomes ELSE {"empty"}
RepliesFor(cl) == IF cl THEN AdvisoryReplies ELSE {"omit"}

VARIABLES
    file,           \* content of the state file (alert_state.json)
    pc,             \* "idle" | "loop" | "notify" | "store" | "save"
    kind,           \* running orchestrator: "core" | "agent" | "none"
    tickers,        \* ticker list of the run
    threshold_pct,  \* threshold of the run
    news_on,        \* news_cfg enabled
    client,         \* stock_agent.client is not None
    force_delta,    \* test_cfg force_delta_pct in effect (run_once), or NoForce
    within,         \* outcome of the last market-hours gate
    state,          \* in-memory mapping of the run (state / st)
    i,              \* 1-based index of the ticker being processed
    prev,           \* local prev of the iteration
    direction,      \* local direction of the iteration
    ev,             \* observation of the current / last iteration
    processed,      \* tickers evaluated so far in this run, in order
    watch,          \* the ticker whose history trail and alerts follow,
                    \* "-" when no history is kept
    trail,          \* evaluations of watch since it was unseen
    alerts,         \* summary of the dispatches made for watch
    fn,             \* helper called on its own ("-" inside a run)
    arg,            \* its arguments
    ret             \* what it returned

vars == <<file, pc, kind, tickers, threshold_pct, news_on, client, force_delta,
          within, state, i, prev, direction, ev, processed, watch, trail, alerts,
          fn, arg, ret>>

\* the variables of a run, and those of a helper call
runVars == <<file, pc, kind, tickers, threshold_pct, news_on, client,
             force_delta, within, state, i, prev, direction, ev, processed,
             watch, trail, alerts>>
callVars == <<fn, arg, ret>>
NoCall == [none |-> TRUE]

cfgVars == <<kind, tickers, threshold_pct, news_on, client, force_delta>>

\* --------------------------------------------------------- state.py ----
\* load_state: a dict is returned as is; anything else gives {}
load_state(f) == IF f.form = "object" THEN f.data ELSE EmptyMapping

\* save_state: write_text either completes, or raises having left the old
\* content or a truncated (unparseable) file
save_results(f, m, ok) ==
    IF ok THEN {JsonFile(m)} ELSE {f, BrokenFile("badjson")}

\* variant: a missing entry is read as an alert already sent
Get_DefaultUp(m, tk) == IF m[tk] = "absent" THEN "up" ELSE m[tk]

\* dict.get(tk, "none")
Get(m, tk) == IF m[tk] = "absent" THEN "none" ELSE m[tk]

\* ------------------------------------------------------ pure helpers ----
\* core._pct_change / stock_agent.pct_change
pct_change(open_price, last_price) ==
    IF open_price = 0 THEN 0
    ELSE ((last_price - open_price) * 100) \div open_price

\* variant: the boundaries are exclusive
Classify_Strict(pct, t) ==
    IF pct > t THEN "up" ELSE IF pct < 0 - t THEN "down" ELSE "none"

\* direction = "up" if pct >= t else "down" if pct <= -t else "none"
Classify(pct, t) ==
    IF pct >= t THEN "up" ELSE IF pct <= 0 - t THEN "down" ELSE "none"

\* run_agent_once, line 181: the same expression on d_pct
agent_classify(d_pct, t) ==
    IF d_pct >= t THEN "up" ELSE (IF d_pct <= 0 - t THEN "down" ELSE "none")

\* run_once raises RuntimeError when open_px == 0
CoreRejectsPrice(px) == ~px.ok \/ px.open = 0

\* run_agent_once has no check on open_px; only a raising fetch aborts
AgentRejectsPrice(px) == ~px.ok

\* variants of the corridor test: alert only when leaving the corridor, and
\* alert on every breakout whatever was stored
IsNewBreakout_FromCorridor(dir, pv) == dir # "none" /\ pv = "none"
IsNewBreakout_NoDedup(dir, pv) == dir # "none"

\* first branch of the corridor if/elif chain
IsNewBreakout(dir, pv) == dir # "none" /\ dir # pv

\* variants: the stored direction is never reset, and it is rewritten
\* whenever the classified direction differs from it
IsReset_Never(dir, pv) == FALSE
IsReset_AnyChange(dir, pv) == dir # pv

\* second branch: back in the corridor with something stored
IsReset(dir, pv) == dir = "none" /\ pv # "none"

\* agent_summarize_and_decide: the send_alert it returns
agent_send(hasClient, reply, delta_pct, t) ==
    LET floor == Abs(delta_pct) >= t
    IN  IF ~hasClient THEN floor
        ELSE IF reply = "raise" THEN floor
        ELSE IF reply = "omit" THEN floor
        ELSE reply = "send"

\* variant: the advisory verdict alone decides the dispatch
AgentDispatches_AdvisoryOnly(dir, pv, snd) == snd

\* run_agent_once, first branch: a new breakout that the composer lets pass
AgentDispatches(dir, pv, snd) == IsNewBreakout(dir, pv) /\ snd

\* variant: the state is written whether or not notify_ntfy returned
AfterNotify_Always(ok) == "store"

\* what follows notify_ntfy: state write on return, except-handler on raise
AfterNotify(ok) == IF ok THEN "store" ELSE "loop"

\* what save_state leaves in the file
SaveOutcomes == {"ok", "kept", "truncated"}
Persisted(old, new, save) ==
    IF save = "ok" THEN new ELSE IF save = "kept" THEN old ELSE EmptyMapping

\* one run of run_once over the list [tk] on the persisted mapping m, the
\* price giving direction dir: whether notify_ntfy was called, and the
\* mapping the file holds afterwards (lines 179, 198-201, 272-290)
run_ticker(m, tk, dir, notify_ok, save) ==
    LET pv == Get(m, tk)
    IN  IF IsNewBreakout(dir, pv)
        THEN [called |-> TRUE,
              stored |-> IF AfterNotify(notify_ok) = "store"
                         THEN Persisted(m, [m EXCEPT ![tk] = dir], save)
                         ELSE m]
        ELSE IF IsReset(dir, pv)
        THEN [called |-> FALSE,
              stored |-> Persisted(m, [m EXCEPT ![tk] = "none"], save)]
        ELSE [called |-> FALSE, stored |-> m]

\* ----------------------------------------------------- market hours ----
\* the local clock: weekday 1..7 (Monday = 1) and the time of day in ticks,
\* two ticks to the hour; open and close fall on ticks
Days == 1..7
Times == 0..MaxTime
HourOf(t) == t \div 2
Hours == 0..HourOf(MaxTime)
\* active_days: the empty list, Monday to Friday, the weekend, every day
DaySets == {"no days", "mon-fri", "sat-sun", "all days"}
DaysOf(ad) ==
    IF ad = "no days" THEN {}
    ELSE IF ad = "mon-fri" THEN {d \in Days : d <= 5}
    ELSE IF ad = "sat-sun" THEN {d \in Days : d > 5}
    ELSE Days
\* the window within_market_hours takes when open and close are not given
DefaultWindow == [open |-> 1, close |-> 2]

\* market_hours_cfg. keys = "A": timezone, open and close are all present;
\* keys = "B": one of them is missing. pause, enabled and monfri are the
\* values the code reads for pause_on_closed, enabled and
\* days_mon_to_fri_only (TRUE when the key is absent).
SchemaA ==
    [keys : {"A"}, pause : BOOLEAN, active_days : DaySets,
     open : Times, close : Times,
     enabled : {TRUE}, monfri : {TRUE}, start_hour : {0}, end_hour : {0}]
SchemaB ==
    [keys : {"B"}, pause : BOOLEAN, active_days : {"mon-fri"},
     open : {DefaultWindow.open}, close : {DefaultWindow.close},
     enabled : BOOLEAN, monfri : BOOLEAN, start_hour : Hours,
     end_hour : Hours]
MarketCfgs == SchemaA \cup SchemaB

\* lines 123-129 of core.py, 54-60 of stock_agent.py
in_window(cfg, wk, t) ==
    IF DaysOf(cfg.active_days) # {} /\ wk \notin DaysOf(cfg.active_days)
    THEN FALSE
    ELSE cfg.open <= t /\ t <= cfg.close

\* core.is_market_hours
is_market_hours(cfg, wk, t) ==
    IF cfg.keys = "A"
    THEN IF ~cfg.pause THEN TRUE ELSE in_window(cfg, wk, t)
    ELSE IF ~cfg.enabled THEN TRUE
    ELSE IF cfg.monfri /\ wk - 1 >= 5 THEN FALSE
    ELSE cfg.start_hour <= HourOf(t) /\ HourOf(t) < cfg.end_hour

\* stock_agent.within_market_hours
within_market_hours(cfg, wk, t) ==
    IF ~cfg.pause THEN TRUE ELSE in_window(cfg, wk, t)

\* ------------------------------------------------------ market gate ----
TestCfgs ==
    [enabled : BOOLEAN, bypass_market_hours : BOOLEAN,
     force_run_outside_hours : BOOLEAN, force_delta_pct : Forces]

\* variant: run_once never stops at the gate
core_within_Always(mh, test) == TRUE

\* run_once: within = is_market_hours(cfg), overridden by the test flags
core_within(mh, test) ==
    \/ mh
    \/ (test.enabled /\ test.bypass_market_hours)
    \/ test.force_run_outside_hours

\* run_agent_once: the gate is consulted only when pause_on_closed is set
\* and bypass_market_hours is not
agent_within(pause, mh, test) ==
    ~(pause /\ ~test.bypass_market_hours /\ ~mh)

\* force_delta_pct applies when test.enabled and the key is not None
core_force(test) == IF test.enabled THEN test.force_delta_pct ELSE NoForce

\* ------------------------------------------------------ observations ---
\* ev describes the iteration in progress (or the last one finished)
NoEv ==
    [tk |-> "-", price |-> "-", classified |-> FALSE, floor |-> FALSE,
     news |-> "-", send |-> TRUE, clean |-> TRUE,
     notify |-> "no", wrote |-> FALSE, save |-> "no",
     state0 |-> EmptyMapping, file0 |-> BrokenFile("missing"),
     repeatAny |-> FALSE, repeatLast |-> FALSE, noneSince |-> FALSE,
     lost |-> FALSE, done |-> FALSE]

\* direction sequences that trail follows, from an unseen ticker
Scenarios == {<<"up", "up", "none", "up">>, <<"up", "down">>}
IsPrefix(s, t) == Len(s) <= Len(t) /\ SubSeq(t, 1, Len(s)) = s
Watched(ds) == \E sc \in Scenarios : IsPrefix(ds, sc)

TrailOff == [on |-> FALSE, core |-> TRUE, dirs |-> <<>>, fired |-> <<>>]
TrailFresh == [on |-> TRUE, core |-> TRUE, dirs |-> <<>>, fired |-> <<>>]

\* one more evaluation of a ticker in which every collaborator succeeded
TrailStep(tr, dir, fired, isCore) ==
    IF ~tr.on THEN tr
    ELSE LET ds == Append(tr.dirs, dir)
         IN  IF Watched(ds)
             THEN [on |-> TRUE, core |-> tr.core /\ isCore, dirs |-> ds,
                   fired |-> Append(tr.fired, fired)]
             ELSE TrailOff

\* a run that loads m starts following the ticker when it is unseen in m
TrailArm(tr, m, tk) ==
    IF tk \in Tickers /\ ~tr.on /\ m[tk] = "absent" THEN TrailFresh ELSE tr

NoAlerts == [last |-> "none", up |-> "never", down |-> "never", lost |-> FALSE]

\* the ticker was classified None: every direction announced before has
\* now seen a return to the corridor
AlertsNone(a) ==
    [a EXCEPT !.up = IF @ = "fresh" THEN "none" ELSE @,
              !.down = IF @ = "fresh" THEN "none" ELSE @]

\* a dispatch announcing direction x went out
AlertsSent(a, x) ==
    [last |-> x,
     up |-> IF x = "up" THEN "fresh" ELSE a.up,
     down |-> IF x = "down" THEN "fresh" ELSE a.down,
     lost |-> FALSE]

AlertsLost(a) == [a EXCEPT !.lost = TRUE]

\* ------------------------------------------------------------- Init ----
Init ==
    /\ file \in BrokenFiles
    /\ pc = "idle"
    /\ kind = "none"
    /\ tickers = <<>>
    /\ threshold_pct = 0
    /\ news_on = FALSE
    /\ client = FALSE
    /\ force_delta = NoForce
    /\ within = FALSE
    /\ state = EmptyMapping
    /\ i = 0
    /\ prev = "none"
    /\ direction = "none"
    /\ ev = NoEv
    /\ processed = <<>>
    /\ watch = "-"
    /\ trail = TrailOff
    /\ alerts = NoAlerts
    /\ fn = "-"
    /\ arg = NoCall
    /\ ret = NoCall

\* the same start, following the history of one ticker
InitHistory ==
    /\ file \in BrokenFiles
    /\ pc = "idle"
    /\ kind = "none"
    /\ tickers = <<>>
    /\ threshold_pct = 0
    /\ news_on = FALSE
    /\ client = FALSE
    /\ force_delta = NoForce
    /\ within = FALSE
    /\ state = EmptyMapping
    /\ i = 0
    /\ prev = "none"
    /\ direction = "none"
    /\ ev = NoEv
    /\ processed = <<>>
    /\ watch \in Tickers
    /\ trail = TrailFresh
    /\ alerts = NoAlerts
    /\ fn = "-"
    /\ arg = NoCall
    /\ ret = NoCall

\* ---------------------------------------------------------- actions ----
\* the function returns before the loop: nothing but the gate result
GateClosed ==
    /\ within' = FALSE
    /\ UNCHANGED <<file, pc, cfgVars, state, i, prev, direction, ev,
                   processed, watch, trail, alerts>>

\* the gate is passed: load the state and enter the loop
EnterLoop(k, tl, t, nw, cl, fd) ==
    /\ within' = TRUE
    /\ kind' = k
    /\ tickers' = tl
    /\ threshold_pct' = t
    /\ news_on' = nw
    /\ client' = cl
    /\ force_delta' = fd
    /\ state' = load_state(file)
    /\ i' = 1
    /\ pc' = "loop"
    /\ ev' = NoEv
    /\ processed' = <<>>
    /\ trail' = TrailArm(trail, load_state(file), watch)
    /\ UNCHANGED <<file, prev, direction, watch, alerts>>

\* run_once, lines 158-179: the gate, then the load
StartOnce(tl, t, nw, mh, test) ==
    IF core_within(mh, test)
    THEN EnterLoop("core", tl, t, nw, FALSE, core_force(test))
    ELSE GateClosed

\* run_agent_once, lines 165-173
StartAgent(tl, t, nw, cl, pause, mh, test) ==
    IF agent_within(pause, mh, test)
    THEN EnterLoop("agent", tl, t, nw, cl, NoForce)
    ELSE GateClosed

\* run_once with the threshold drawn from Ts and test_cfg from Cs
RunOnceFrom(Ts, Cs) ==
    /\ pc = "idle"
    /\ \E tl \in RunLists(watch), t \in Ts, nw \in BOOLEAN,
          mh \in BOOLEAN, test \in Cs :
          StartOnce(tl, t, nw, mh, test)
    /\ UNCHANGED callVars

\* run_agent_once likewise
RunAgentFrom(Ts, Cs) ==
    /\ pc = "idle"
    /\ \E tl \in RunLists(watch), t \in Ts, nw \in BOOLEAN,
          cl \in BOOLEAN, pause \in BOOLEAN, mh \in BOOLEAN,
          test \in Cs :
          StartAgent(tl, t, nw, cl, pause, mh, test)
    /\ UNCHANGED callVars

RunOnceStart == RunOnceFrom(Thresholds, TestCfgs)

RunAgentStart == RunAgentFrom(Thresholds, TestCfgs)

\* runs with the smallest threshold and no forced delta
PlainCfgs == {c \in TestCfgs : ~c.force_delta_pct.set}

PlainOnceStart == RunOnceFrom({1}, PlainCfgs)

PlainAgentStart == RunAgentFrom({1}, PlainCfgs)

\* runs over at most one ticker, where what the gate saw is kept: the
\* answer of the market-hours check (for run_agent_once the answer of
\* within_market_hours, true without pause_on_closed), whether a bypass flag
\* of test_cfg is set, and the state file at that moment
GateLists == {tl \in TickerLists : Len(tl) <= 1}
GateSeen(k, open, test) ==
    [orchestrator |-> k, open |-> open,
     flag |-> test.bypass_market_hours \/ test.force_run_outside_hours,
     file0 |-> file]

GatedOnceStart ==
    /\ pc = "idle"
    /\ \E tl \in GateLists, nw \in BOOLEAN, mh \in BOOLEAN,
          test \in PlainCfgs :
          /\ StartOnce(tl, 1, nw, mh, test)
          /\ fn' = "gate"
          /\ arg' = GateSeen("core", mh, test)
          /\ ret' = NoCall

GatedAgentStart ==
    /\ pc = "idle"
    /\ \E tl \in GateLists, nw \in BOOLEAN, cl \in BOOLEAN,
          pause \in BOOLEAN, mh \in BOOLEAN, test \in PlainCfgs :
          /\ StartAgent(tl, 1, nw, cl, pause, mh, test)
          /\ fn' = "gate"
          /\ arg' = GateSeen("agent", ~pause \/ mh, test)
          /\ ret' = NoCall

\* ------------------------------------------- the two orchestrators ----
\* what one run meets: the market-hours configuration and clock (pause_on_
\* closed, and whether the clock is inside the window), test_cfg, the price,
\* the news service ("off": news_cfg disabled), notify_ntfy and save_state
Gates == [pause : BOOLEAN, mh : BOOLEAN, test : PlainCfgs]
PricedOutcomes == {px \in PriceOutcomes : ~px.ok \/ px.open # 0}
NewsServices == {"off"} \cup NewsOutcomes
Untouched(m) == [called |-> FALSE, stored |-> m]

\* run_once over the list [tk] on the persisted mapping m (lines 166-298)
core_run(m, tk, gate, px, t, news, notify_ok, save) ==
    IF ~core_within(~gate.pause \/ gate.mh, gate.test) THEN Untouched(m)
    ELSE IF CoreRejectsPrice(px) THEN Untouched(m)
    ELSE LET dir == Classify(pct_change(px.open, px.last), t)
         IN  IF IsNewBreakout(dir, Get(m, tk)) /\ news = "raise"
             THEN Untouched(m)
             ELSE run_ticker(m, tk, dir, notify_ok, save)

\* run_agent_once over the list [tk] with no LLM client (lines 165-244)
agent_run(m, tk, gate, px, t, news, notify_ok, save) ==
    IF ~agent_within(gate.pause, gate.mh, gate.test) THEN Untouched(m)
    ELSE IF AgentRejectsPrice(px) THEN Untouched(m)
    ELSE LET d_pct == pct_change(px.open, px.last)
             dir == agent_classify(d_pct, t)
             pv == Get(m, tk)
             snd == agent_send(FALSE, "omit", d_pct, t)
         IN  IF news = "raise" THEN Untouched(m)
             ELSE IF AgentDispatches(dir, pv, snd)
             THEN [called |-> TRUE,
                   stored |-> IF AfterNotify(notify_ok) = "store"
                              THEN Persisted(m, [m EXCEPT ![tk] = dir], save)
                              ELSE m]
             ELSE IF IsReset(dir, pv)
             THEN [called |-> FALSE,
                   stored |-> Persisted(m, [m EXCEPT ![tk] = "none"], save)]
             ELSE Untouched(m)

\* the two orchestrators side by side on one ticker, from the same file
RefineStart ==
    /\ fn = "-"
    /\ \E tk \in Tickers, e \in Entries :
          /\ fn' = "refine"
          /\ arg' = [tk |-> tk, ran |-> FALSE, gate |-> "-", news |-> "-"]
          /\ ret' = [run_once |->
                          Untouched([EmptyMapping EXCEPT ![tk] = e]),
                      run_agent_once |->
                          Untouched([EmptyMapping EXCEPT ![tk] = e])]
    /\ UNCHANGED runVars

\* the next run of each, meeting the same configuration, price and
\* collaborator outcomes
RefineRun ==
    /\ fn = "refine"
    /\ \E gate \in Gates, px \in PricedOutcomes, news \in NewsServices,
          ok \in BOOLEAN, save \in SaveOutcomes :
          /\ arg' = [tk |-> arg.tk, ran |-> TRUE,
                      gate |-> IF core_within(~gate.pause \/ gate.mh, gate.test)
                                  = agent_within(gate.pause, gate.mh, gate.test)
                               THEN "alike" ELSE "unlike",
                      news |-> news]
          /\ ret' = [run_once |->
                          core_run(ret.run_once.stored, arg.tk, gate, px, 1,
                                   news, ok, save),
                      run_agent_once |->
                          agent_run(ret.run_agent_once.stored, arg.tk, gate,
                                    px, 1, news, ok, save)]
    /\ UNCHANGED <<fn, runVars>>

\* the for loop is exhausted: the function returns, its locals are gone
RunEnd ==
    /\ pc = "loop"
    /\ i > Len(tickers)
    /\ pc' = "idle"
    /\ kind' = "none"
    /\ tickers' = <<>>
    /\ threshold_pct' = 0
    /\ news_on' = FALSE
    /\ client' = FALSE
    /\ force_delta' = NoForce
    /\ state' = EmptyMapping
    /\ i' = 0
    /\ prev' = "none"
    /\ direction' = "none"
    /\ ev' = NoEv
    /\ processed' = <<>>
    /\ UNCHANGED <<file, within, watch, trail, alerts>>
    /\ UNCHANGED callVars

\* the except handler (or the end of the loop body): on to the next ticker
Advance == i' = i + 1 /\ pc' = "loop"

\* observation at the start of an iteration
EvStart(tk) == [NoEv EXCEPT !.tk = tk, !.state0 = state, !.file0 = file]

SinceOf(a, x) == IF x = "up" THEN a.up ELSE a.down

\* variant: the exception leaves the for loop instead of the iteration
Abort_Run(e) ==
    /\ ev' = [e EXCEPT !.clean = FALSE, !.done = TRUE]
    /\ i' = Len(tickers) + 1
    /\ pc' = "loop"
    /\ trail' = TrailOff

\* the iteration ends in the except handler before anything was sent
Abort(e) ==
    /\ ev' = [e EXCEPT !.clean = FALSE, !.done = TRUE]
    /\ Advance
    /\ trail' = TrailOff

\* the iteration ends without dispatch and without state write
NoOp(e, tk, dir) ==
    /\ ev' = [e EXCEPT !.done = TRUE]
    /\ Advance
    /\ trail' = IF ~e.clean THEN TrailOff
                ELSE IF tk = watch
                     THEN TrailStep(trail, dir, FALSE, kind = "core")
                     ELSE trail

\* run_once, lines 181-270 and 285-298: price, classification, corridor
\* branch and (on a new breakout) news enrichment of one ticker
CoreEvaluate ==
    /\ pc = "loop"
    /\ kind = "core"
    /\ i <= Len(tickers)
    /\ LET tk == tickers[i] IN
       \E px \in PriceOutcomes, nw \in NewsFor(news_on) :
          /\ processed' = Append(processed, tk)
          /\ IF CoreRejectsPrice(px)
             THEN /\ Abort([EvStart(tk) EXCEPT
                              !.price = IF px.ok THEN "zero" ELSE "raise"])
                  /\ UNCHANGED <<prev, direction, alerts>>
             ELSE LET pct == IF force_delta.set THEN force_delta.pct
                             ELSE pct_change(px.open, px.last)
                      pv  == Get(state, tk)
                      dir == Classify(pct, threshold_pct)
                      e0  == [EvStart(tk) EXCEPT !.price = "ok",
                                !.classified = TRUE,
                                !.floor = Abs(pct) >= threshold_pct]
                  IN  /\ prev' = pv
                      /\ direction' = dir
                      /\ alerts' = IF dir = "none" /\ tk = watch
                                   THEN AlertsNone(alerts)
                                   ELSE alerts
                      /\ IF IsNewBreakout(dir, pv)
                         THEN IF news_on /\ nw = "raise"
                              THEN Abort([e0 EXCEPT !.news = "raise"])
                              ELSE /\ ev' = [e0 EXCEPT
                                       !.news = IF news_on THEN "fetched"
                                                ELSE "-"]
                                   /\ pc' = "notify"
                                   /\ UNCHANGED <<i, trail>>
                         ELSE IF IsReset(dir, pv)
                              THEN /\ ev' = e0
                                   /\ pc' = "store"
                                   /\ UNCHANGED <<i, trail>>
                              ELSE NoOp(e0, tk, dir)
    /\ UNCHANGED <<file, cfgVars, within, state, watch>>
    /\ UNCHANGED callVars

\* run_agent_once, lines 175-223 and 235-244: price, classification,
\* headlines, agent_summarize_and_decide and the corridor branch
AgentEvaluate ==
    /\ pc = "loop"
    /\ kind = "agent"
    /\ i <= Len(tickers)
    /\ LET tk == tickers[i] IN
       \E px \in PriceOutcomes, nw \in NewsFor(news_on),
          rp \in RepliesFor(client) :
          /\ processed' = Append(processed, tk)
          /\ IF AgentRejectsPrice(px)
             THEN /\ Abort([EvStart(tk) EXCEPT !.price = "raise"])
                  /\ UNCHANGED <<prev, direction, alerts>>
             ELSE LET d_pct == pct_change(px.open, px.last)
                      pv  == Get(state, tk)
                      dir == agent_classify(d_pct, threshold_pct)
                      snd == agent_send(client, rp, d_pct, threshold_pct)
                      e0  == [EvStart(tk) EXCEPT
                                !.price = IF px.open = 0 THEN "zero" ELSE "ok",
                                !.classified = TRUE,
                                !.floor = Abs(d_pct) >= threshold_pct,
                                !.clean = px.open # 0]
                      e1  == [e0 EXCEPT
                                !.news = IF news_on THEN "fetched" ELSE "-",
                                !.send = snd,
                                !.clean = @ /\ ~(client /\ rp = "raise")]
                  IN  /\ prev' = pv
                      /\ direction' = dir
                      /\ alerts' = IF dir = "none" /\ tk = watch
                                   THEN AlertsNone(alerts)
                                   ELSE alerts
                      /\ IF news_on /\ nw = "raise"
                         THEN Abort([e0 EXCEPT !.news = "raise"])
                         ELSE IF AgentDispatches(dir, pv, snd)
                              THEN /\ ev' = e1
                                   /\ pc' = "notify"
                                   /\ UNCHANGED <<i, trail>>
                              ELSE IF IsReset(dir, pv)
                                   THEN /\ ev' = e1
                                        /\ pc' = "store"
                                        /\ UNCHANGED <<i, trail>>
                                   ELSE NoOp(e1, tk, dir)
    /\ UNCHANGED <<file, cfgVars, within, state, watch>>
    /\ UNCHANGED callVars

\* notify_ntfy (core.py 272-280, stock_agent.py 224-232): returns or raises
Notify ==
    /\ pc = "notify"
    /\ LET tk == tickers[i] IN
       \E ok \in BOOLEAN :
          /\ pc' = AfterNotify(ok)
          /\ i' = IF AfterNotify(ok) = "loop" THEN i + 1 ELSE i
          /\ IF ok
             THEN /\ ev' = IF tk # watch THEN [ev EXCEPT !.notify = "ok"]
                           ELSE [ev EXCEPT
                       !.notify = "ok",
                       !.repeatAny = SinceOf(alerts, direction) # "never",
                       !.noneSince = SinceOf(alerts, direction) = "none",
                       !.repeatLast = alerts.last = direction,
                       !.lost = alerts.lost]
                  /\ alerts' = IF tk = watch
                               THEN AlertsSent(alerts, direction) ELSE alerts
                  /\ UNCHANGED trail
             ELSE /\ ev' = [ev EXCEPT !.notify = "raise", !.clean = FALSE,
                                      !.done = AfterNotify(ok) = "loop"]
                  /\ trail' = TrailOff
                  /\ UNCHANGED alerts
    /\ UNCHANGED <<file, cfgVars, within, state, prev, direction,
                   processed, watch>>
    /\ UNCHANGED callVars

\* state[tk] = direction (core.py 282 and 289, stock_agent.py 233 and 237)
Store ==
    /\ pc = "store"
    /\ state' = [state EXCEPT ![tickers[i]] = direction]
    /\ ev' = [ev EXCEPT !.wrote = TRUE]
    /\ pc' = "save"
    /\ UNCHANGED <<file, cfgVars, within, i, prev, direction, processed,
                   watch, trail, alerts>>
    /\ UNCHANGED callVars

\* save_state(state_file, state) (core.py 283 and 290, stock_agent.py 234
\* and 238); a raise lands in the except handler of the loop body
Save ==
    /\ pc = "save"
    /\ \E ok \in BOOLEAN :
          /\ file' \in save_results(file, state, ok)
          /\ ev' = [ev EXCEPT !.save = IF ok THEN "ok" ELSE "fail",
                              !.clean = @ /\ ok, !.done = TRUE]
          /\ trail' = IF ~(ok /\ ev.clean) THEN TrailOff
                      ELSE IF tickers[i] = watch
                           THEN TrailStep(trail, direction, ev.notify = "ok",
                                          kind = "core")
                           ELSE trail
          /\ alerts' = IF ok \/ watch = "-" THEN alerts
                        ELSE AlertsLost(alerts)
    /\ Advance
    /\ UNCHANGED <<cfgVars, within, state, prev, direction, processed, watch>>
    /\ UNCHANGED callVars

Next ==
    \/ RunOnceStart
    \/ RunAgentStart
    \/ CoreEvaluate
    \/ AgentEvaluate
    \/ Notify
    \/ Store
    \/ Save
    \/ RunEnd

Spec == Init /\ [][Next]_vars

SpecHistory == InitHistory /\ [][Next]_vars

\* runs whose gate is on record
NextGate ==
    \/ GatedOnceStart
    \/ GatedAgentStart
    \/ CoreEvaluate
    \/ AgentEvaluate
    \/ Notify
    \/ Store
    \/ Save
    \/ RunEnd

SpecGate == Init /\ [][NextGate]_vars

\* the sweep of the ticker list under plain runs
NextPlain ==
    \/ PlainOnceStart
    \/ PlainAgentStart
    \/ CoreEvaluate
    \/ AgentEvaluate
    \/ Notify
    \/ Store
    \/ Save
    \/ RunEnd

\* the code runs on: an enabled step of a run is eventually taken
FairSpec == Init /\ [][NextPlain]_vars /\ WF_vars(NextPlain)

\* ------------------------------------------------------- news.py ----
\* A URL: whether urlparse accepts it, whether it has a scheme, its host and
\* path, the query parameter that carries an article address (if any), the
\* article, and esc, the layers of percent-encoding on the carried value
\* (or, without such a parameter, the escapes in the URL itself).
Hosts == {"news.google.com", "consent.google.com", "example.com"}
Paths == {"/rss/articles/", "/articles/", "/"}
Carriers == {"none", "url", "continue"}
Articles == {"A", "B"}
Escapes == 0..MaxEsc
BadUrl ==
    [ok |-> FALSE, scheme |-> TRUE, host |-> "example.com", path |-> "/",
     q |-> "none", id |-> "A", esc |-> 0]
Urls ==
    [ok : {TRUE}, scheme : BOOLEAN, host : Hosts, path : Paths,
     q : Carriers, id : Articles, esc : Escapes] \cup {BadUrl}

\* outcome of requests.get in the resolver: it raises, it ends on the
\* article's own site, or it stays on a google page with nothing to find
Net(k) == [kind |-> k, at |-> BadUrl]
NetOutcomes == {Net("raise"), Net("external"), Net("parked")}

\* ensure_https
ensure_https(u) == [u EXCEPT !.scheme = TRUE]

\* urllib unquote, and the decoding parse_qs does: one layer less
unquote(esc) == IF esc = 0 THEN 0 ELSE esc - 1

\* the article address with esc layers of encoding left, scheme-normalized
ArticleUrl(id, esc) ==
    [ok |-> TRUE, scheme |-> TRUE, host |-> "example.com", path |-> "/",
     q |-> "none", id |-> id, esc |-> esc]

\* qs[...][0] of parse_qs, then unquote, then ensure_https (lines 79, 90)
carried_value(u) == ArticleUrl(u.id, unquote(unquote(u.esc)))

\* lines 99-106: /rss/articles/ becomes /articles/ on the aggregator
rewrite_path(u) ==
    IF u.host = "news.google.com" /\ u.path = "/rss/articles/"
    THEN [u EXCEPT !.path = "/articles/"] ELSE u

Returned(u, req) == [raised |-> FALSE, url |-> u, requested |-> req]
Raised(req) == [raised |-> TRUE, url |-> BadUrl, requested |-> req]

\* and the outcomes that carry an address: the redirect chain ends on it,
\* off google ("moved"), or the chain ends on a page with a google name in
\* its URL whose HTML names it (canonical, refresh, script, first link)
PageOutcomes ==
    {[kind |-> k, at |-> ArticleUrl(id, e)] :
        k \in {"moved", "named"}, id \in Articles, e \in Escapes}
AllOutcomes == NetOutcomes \cup PageOutcomes

\* lines 117-168: the request for u3 and what is returned after it
network_step(u3, net) ==
    IF net.kind = "external" /\ u3.host # "example.com"
    THEN Returned(ArticleUrl(u3.id, 0), TRUE)
    ELSE IF net.kind = "moved"
    THEN Returned(ensure_https(net.at), TRUE)
    ELSE IF net.kind = "named"
    THEN Returned(ensure_https([net.at EXCEPT !.esc = unquote(@)]), TRUE)
    ELSE Returned(u3, TRUE)

\* variant: the request is made whatever resolve_redirects says
follow_redirects_Always(u3, resolve_redirects, net) == network_step(u3, net)

\* lines 108-109 and what follows them
follow_redirects(u3, resolve_redirects, net) ==
    IF ~resolve_redirects THEN Returned(u3, FALSE) ELSE network_step(u3, net)

\* _extract_original_url, lines 82-168
extract_original_url(link, resolve_redirects, net) ==
    LET url == ensure_https(link)
    IN  IF url.ok /\ url.host = "news.google.com" /\ url.q = "url"
        THEN Returned(carried_value(url), FALSE)
        ELSE IF ~url.ok
        THEN Raised(FALSE)
        ELSE IF url.host = "consent.google.com" /\ url.q = "continue"
        THEN Returned(carried_value(url), FALSE)
        ELSE follow_redirects(rewrite_path(url), resolve_redirects, net)

\* feed entries: title, link (has = FALSE: no link), publish time (dated =
\* FALSE: none given) as age in hours
Link(path, id) ==
    [ok |-> TRUE, scheme |-> TRUE, host |-> "news.google.com", path |-> path,
     q |-> "url", id |-> id, esc |-> 1]
Entry(title, has, link, dated, age) ==
    [title |-> title, has |-> has, link |-> link, dated |-> dated, age |-> age]
\* entries that give a headline: two raw links of article A, one of B
GoodEntries ==
    {Entry("AAPL up", TRUE, Link("/rss/articles/", "A"), TRUE, 1),
     Entry("markets", TRUE, Link("/articles/", "A"), FALSE, 0),
     Entry("AAPL up", TRUE, Link("/articles/", "B"), TRUE, 1)}
\* and entries without title or link, an old one, one whose link does not
\* parse, one whose link carries no address
FeedEntries ==
    GoodEntries \cup
    {Entry("", TRUE, Link("/articles/", "A"), TRUE, 1),
     Entry("markets", FALSE, BadUrl, TRUE, 1),
     Entry("AAPL up", TRUE, Link("/articles/", "B"), TRUE, 30),
     Entry("markets", TRUE, BadUrl, FALSE, 0),
     Entry("markets", TRUE,
           [Link("/rss/articles/", "B") EXCEPT !.q = "none", !.esc = 0],
           FALSE, 0)}

RECURSIVE ListsOver(_, _)
ListsOver(S, n) ==
    IF n = 0 THEN {<<>>}
    ELSE LET L == ListsOver(S, n - 1)
         IN  L \cup {Append(l, x) : l \in {y \in L : Len(y) = n - 1}, x \in S}
\* what the feed request gives: it fails, or a list of entries
FeedFailed == [ok |-> FALSE, entries |-> <<>>]
Feeds == {FeedFailed} \cup [ok : {TRUE}, entries : ListsOver(FeedEntries, MaxFeed)]
GoodFeeds == [ok : {TRUE}, entries : ListsOver(GoodEntries, MaxFeed)]
Limits == 0..MaxLimit
Lookbacks == {6, 12, 24}

Fetched(items) == [raised |-> FALSE, items |-> items]
FetchRaised == [raised |-> TRUE, items |-> <<>>]

\* the for loop over the entries (lines 244-269 and 288-314), from entry k
RECURSIVE fetch_loop(_, _, _, _, _, _)
fetch_loop(entries, k, out, limit, lookback_hours, net) ==
    IF k > Len(entries) THEN Fetched(out)
    ELSE LET e == entries[k]
         IN  IF e.dated /\ e.age > lookback_hours
             THEN fetch_loop(entries, k + 1, out, limit, lookback_hours, net)
             ELSE LET r == extract_original_url(e.link, TRUE, net)
                      wanted == e.title # "" /\ e.has
                      out2 == IF wanted
                              THEN Append(out, [title |-> e.title, url |-> r.url])
                              ELSE out
                  IN  IF wanted /\ r.raised THEN FetchRaised
                      ELSE IF Len(out2) >= limit THEN Fetched(out2)
                      ELSE fetch_loop(entries, k + 1, out2, limit,
                                      lookback_hours, net)

\* fetch_headlines: path A (feedparser) lets exceptions through, path B
\* (requests + ElementTree) turns them into an empty list
fetch_headlines(feed, limit, lookback_hours, viaParser, net) ==
    LET r == IF feed.ok
             THEN fetch_loop(feed.entries, 1, <<>>, limit, lookback_hours, net)
             ELSE FetchRaised
    IN  IF r.raised /\ ~viaParser THEN Fetched(<<>>) ELSE r

\* headline lists as fetch_headlines gives them for GoodEntries
Headline(title, id) == [title |-> title, url |-> ArticleUrl(id, 0)]
Headlines == {Headline("AAPL up", "A"), Headline("markets", "A"),
              Headline("AAPL up", "B")}
HeadlineLists == ListsOver(Headlines, MaxFeed)

\* ------------------------------------------------- enrichment ----
\* required keywords of the title filter: none, or the ticker
Keywords == {<<>>, <<"AAPL">>}
KeywordIn(k, title) == k = "AAPL" /\ title = "AAPL up"

\* filter_titles: without keywords the list as it is, else the headlines
\* whose title contains one of them
filter_titles(items, required_keywords) ==
    IF required_keywords = <<>> THEN items
    ELSE SelectSeq(items, LAMBDA it :
             \E n \in 1..Len(required_keywords) :
                 KeywordIn(required_keywords[n], it.title))

\* core._format_headlines: one line per headline with title and url, its
\* url resolved once more, a resolved url already seen is skipped
RECURSIVE format_headlines(_, _, _, _)
format_headlines(items, k, lines, net) ==
    IF k > Len(items) THEN lines
    ELSE LET it == items[k]
             url == ensure_https(it.url)
             r == extract_original_url(url, TRUE, net)
             orig == IF r.raised THEN url ELSE r.url
             seen == {lines[n].url : n \in 1..Len(lines)}
         IN  IF it.title = "" \/ orig \in seen
             THEN format_headlines(items, k + 1, lines, net)
             ELSE format_headlines(items, k + 1,
                      Append(lines, [title |-> it.title, url |-> orig]), net)

\* variant: the fallback always looks back twelve hours
fallback_lookback_Twelve(hours) == 12

\* run_once, line 253: max(12, lookback_hours)
fallback_lookback(hours) == IF 12 >= hours THEN 12 ELSE hours

Fetch(locale, hours) == [locale |-> locale, lookback_hours |-> hours]
Enriched(fetches, primary, items, text) ==
    [raised |-> FALSE, fetches |-> fetches, primary |-> primary,
     items |-> items, text |-> text]
EnrichRaised(fetches) ==
    [raised |-> TRUE, fetches |-> fetches, primary |-> <<>>,
     items |-> <<>>, text |-> <<>>]

\* run_once, lines 209-268: query, primary fetch, keyword filter, headline
\* block, and the fallback fetch when the block is empty
enrich_core(queryOk, primary, fallback, req_kw, limit, hours, viaParser, net) ==
    IF ~queryOk THEN EnrichRaised(<<>>)
    ELSE LET f1 == fetch_headlines(primary, limit, hours, viaParser, net)
             items1 == filter_titles(f1.items, req_kw)
             text1 == format_headlines(items1, 1, <<>>, net)
             h2 == fallback_lookback(hours)
             f2 == fetch_headlines(fallback, limit, h2, viaParser, net)
             items2 == filter_titles(f2.items, req_kw)
         IN  IF f1.raised THEN EnrichRaised(<<Fetch("primary", hours)>>)
             ELSE IF text1 # <<>>
             THEN Enriched(<<Fetch("primary", hours)>>, items1, items1, text1)
             ELSE IF f2.raised
             THEN EnrichRaised(<<Fetch("primary", hours), Fetch("fallback", h2)>>)
             ELSE Enriched(<<Fetch("primary", hours), Fetch("fallback", h2)>>,
                           items1, items2,
                           format_headlines(items2, 1, <<>>, net))

\* run_agent_once, lines 184-210: primary fetch and, when it gave nothing,
\* the fallback fetch with the same lookback; no keyword filter
agent_headlines(primary, fallback, limit, hours, viaParser, net) ==
    LET f1 == fetch_headlines(primary, limit, hours, viaParser, net)
        f2 == fetch_headlines(fallback, limit, hours, viaParser, net)
    IN  IF f1.raised THEN EnrichRaised(<<Fetch("primary", hours)>>)
        ELSE IF f1.items # <<>>
        THEN Enriched(<<Fetch("primary", hours)>>, f1.items, f1.items, <<>>)
        ELSE IF f2.raised
        THEN EnrichRaised(<<Fetch("primary", hours), Fetch("fallback", hours)>>)
        ELSE Enriched(<<Fetch("primary", hours), Fetch("fallback", hours)>>,
                      f1.items, f2.items, <<>>)

\* feeds of the two locales in an enrichment
LocaleFeeds == GoodFeeds \cup {FeedFailed}

\* ------------------------------------------------- composition ----
NoClick == [has |-> FALSE, url |-> BadUrl]
Click(u) == [has |-> TRUE, url |-> u]

\* format_plain_push: title, body (direction, magnitude, one line per
\* headline with title and url) and click url (that of the first headline)
format_plain_push(ticker, delta_pct, headlines) ==
    [title |-> "Stock Alert: " \o ticker,
     body |-> [by |-> "plain", ticker |-> ticker, up |-> delta_pct >= 0,
               mag |-> Abs(delta_pct),
               lines |-> SelectSeq(headlines, LAMBDA it : it.title # "")],
     click |-> IF headlines = <<>> THEN NoClick ELSE Click(headlines[1].url)]

\* what the LLM call gives: it raises, its content is not JSON, the JSON is
\* not an object, or an object with or without each of the four fields
NoDoc(form) ==
    [form |-> form, send |-> "omit", title |-> "missing", body |-> "missing",
     click |-> "missing"]
AdvisoryDocs ==
    {NoDoc(f) : f \in {"raise", "badjson", "nondict"}} \cup
    [form : {"dict"}, send : {"omit", "true", "false"},
     title : {"missing", "given"}, body : {"missing", "empty", "given"},
     click : {"missing", "given"}]
\* the part of the reply that bears on send_alert
ReplyOf(doc) ==
    IF doc.form # "dict" THEN "raise"
    ELSE IF doc.send = "true" THEN "send"
    ELSE IF doc.send = "false" THEN "decline" ELSE "omit"
LlmBody(ticker) ==
    [by |-> "llm", ticker |-> ticker, up |-> TRUE, mag |-> 0, lines |-> <<>>]
LlmUrl == [ArticleUrl("A", 0) EXCEPT !.path = "/articles/"]

\* variant: an empty body is replaced alone, title and click url stay
agent_compose_BodyOnly(hasClient, doc, plain) ==
    IF ~hasClient \/ doc.form # "dict" THEN plain
    ELSE [title |-> IF doc.title = "given" THEN "LLM title" ELSE plain.title,
          body |-> IF doc.body = "given" THEN LlmBody(plain.body.ticker)
                   ELSE plain.body,
          click |-> IF doc.click = "given" THEN Click(LlmUrl) ELSE NoClick]

\* agent_summarize_and_decide, lines 96-99 and 130-143: title, body and
\* click url it returns; plain is what format_plain_push gives
agent_compose(hasClient, doc, plain) ==
    IF ~hasClient THEN plain
    ELSE IF doc.form # "dict" THEN plain
    ELSE IF doc.body # "given" THEN plain
    ELSE [title |-> IF doc.title = "given" THEN "LLM title" ELSE plain.title,
          body |-> LlmBody(plain.body.ticker),
          click |-> IF doc.click = "given" THEN Click(LlmUrl) ELSE NoClick]

\* ------------------------------------------------- helper calls ----
\* the enrichment of run_once for one new breakout
CallEnrich ==
    /\ fn = "-"
    /\ \E queryOk \in BOOLEAN, p \in LocaleFeeds, f \in LocaleFeeds,
          kw \in Keywords, limit \in Limits, h \in Lookbacks,
          viaParser \in BOOLEAN, net \in NetOutcomes :
          /\ fn' = "enrich"
          /\ arg' = [queryOk |-> queryOk, primary |-> p, fallback |-> f,
                      req_kw |-> kw, limit |-> limit, lookback_hours |-> h,
                      viaParser |-> viaParser, net |-> net]
          /\ ret' = enrich_core(queryOk, p, f, kw, limit, h, viaParser, net)
    /\ UNCHANGED runVars

\* the headline stage of run_agent_once for one ticker
CallAgentHeadlines ==
    /\ fn = "-"
    /\ \E p \in LocaleFeeds, f \in LocaleFeeds, limit \in Limits,
          h \in Lookbacks, viaParser \in BOOLEAN, net \in NetOutcomes :
          /\ fn' = "agent_headlines"
          /\ arg' = [queryOk |-> TRUE, primary |-> p, fallback |-> f,
                      req_kw |-> <<>>, limit |-> limit, lookback_hours |-> h,
                      viaParser |-> viaParser, net |-> net]
          /\ ret' = agent_headlines(p, f, limit, h, viaParser, net)
    /\ UNCHANGED runVars

\* two histories of one ticker side by side: its entry missing from the
\* file, and its entry "none"; no run yet
PairStart ==
    /\ fn = "-"
    /\ \E tk \in Tickers, m \in Mappings :
          /\ m[tk] = "absent"
          /\ fn' = "runs"
          /\ arg' = [tk |-> tk, ran |-> FALSE, direction |-> "none",
                      notify_ok |-> TRUE, save |-> "ok"]
          /\ ret' = [absent |-> [called |-> FALSE, stored |-> m],
                      none |-> [called |-> FALSE,
                                stored |-> [m EXCEPT ![tk] = "none"]]]
    /\ UNCHANGED runVars

\* the next run of both histories, on the same observation and with the
\* same collaborator outcomes
PairRun ==
    /\ fn = "runs"
    /\ \E dir \in Directions, ok \in BOOLEAN, save \in SaveOutcomes :
          /\ arg' = [tk |-> arg.tk, ran |-> TRUE, direction |-> dir,
                      notify_ok |-> ok, save |-> save]
          /\ ret' = [absent |-> run_ticker(ret.absent.stored, arg.tk, dir,
                                            ok, save),
                      none |-> run_ticker(ret.none.stored, arg.tk, dir,
                                          ok, save)]
    /\ UNCHANGED <<fn, runVars>>

\* one call of agent_summarize_and_decide
CallCompose ==
    /\ fn = "-"
    /\ \E tk \in Tickers, d \in Deltas, t \in Thresholds, cl \in BOOLEAN,
          doc \in AdvisoryDocs, hl \in HeadlineLists :
          /\ cl \/ doc = NoDoc("raise")
          /\ fn' = "compose"
          /\ arg' = [ticker |-> tk, delta_pct |-> d, threshold_pct |-> t,
                      client |-> cl, doc |-> doc, headlines |-> hl]
          /\ ret' = [send |-> agent_send(cl, ReplyOf(doc), d, t),
                      out |-> agent_compose(cl, doc,
                                            format_plain_push(tk, d, hl))]
    /\ UNCHANGED runVars

\* one call of the resolver
CallExtract ==
    /\ fn = "-"
    /\ \E link \in Urls, rr \in BOOLEAN, net \in AllOutcomes :
          /\ fn' = "extract"
          /\ arg' = [link |-> link, resolve_redirects |-> rr, net |-> net]
          /\ ret' = extract_original_url(link, rr, net)
    /\ UNCHANGED runVars

\* URLs whose host is outside the aggregator's family
OffAggregator == {u \in Urls : u.ok /\ u.host = "example.com"}

\* the resolver applied to its own result under one behaviour of the
\* network: the same address requested again gets the same response, and
\* the address a redirect chain ended on answers directly
CallExtractTwice ==
    /\ fn = "-"
    /\ \E x \in OffAggregator, rr \in BOOLEAN, n1 \in AllOutcomes,
          n2 \in AllOutcomes :
          LET first == extract_original_url(x, rr, n1)
          IN  /\ first.url = ensure_https(x) => n2 = n1
              /\ n1.kind = "moved" => n2 \in {n1, Net("external")}
              /\ fn' = "twice"
              /\ arg' = [link |-> x, resolve_redirects |-> rr, net |-> n1,
                          net2 |-> n2]
              /\ ret' = [first |-> first,
                          second |-> extract_original_url(first.url, rr, n2)]
    /\ UNCHANGED runVars

\* the market-hours check of each orchestrator on one configuration at one
\* moment
CallMarketHours ==
    /\ fn = "-"
    /\ \E cfg \in MarketCfgs, wk \in Days, t \in Times :
          /\ fn' = "market_hours"
          /\ arg' = [cfg |-> cfg, wk |-> wk, t |-> t]
          /\ ret' = [core_open |-> is_market_hours(cfg, wk, t),
                      agent_open |-> within_market_hours(cfg, wk, t)]
    /\ UNCHANGED runVars

\* the classification lines of the two orchestrators on one change
CallClassify ==
    /\ fn = "-"
    /\ \E d \in Deltas, t \in AnyThresholds :
          /\ fn' = "classify"
          /\ arg' = [d |-> d, t |-> t]
          /\ ret' = [core |-> Classify(d, t), agent |-> agent_classify(d, t)]
    /\ UNCHANGED runVars

\* one call of fetch_headlines
CallFetch ==
    /\ fn = "-"
    /\ \E feed \in Feeds, limit \in Limits, h \in Lookbacks,
          viaParser \in BOOLEAN, net \in NetOutcomes :
          /\ fn' = "fetch"
          /\ arg' = [feed |-> feed, limit |-> limit, lookback_hours |-> h,
                      viaParser |-> viaParser, net |-> net]
          /\ ret' = fetch_headlines(feed, limit, h, viaParser, net)
    /\ UNCHANGED runVars

\* the helper has returned
CallReturn ==
    /\ fn # "-"
    /\ fn' = "-"
    /\ arg' = NoCall
    /\ ret' = NoCall
    /\ UNCHANGED runVars

NextHelpers ==
    \/ CallReturn
    \/ PairStart
    \/ PairRun
    \/ CallEnrich
    \/ CallAgentHeadlines
    \/ CallCompose
    \/ CallClassify
    \/ CallMarketHours
    \/ CallExtract
    \/ CallExtractTwice
    \/ CallFetch

\* no run is in progress and none has been: there is no state file
InitCalls == Init /\ file = BrokenFile("missing")

\* the helpers called on their own with every input of the bounds
SpecHelpers == InitCalls /\ [][NextHelpers]_vars

\* run_once and run_agent_once fed alike
NextRefine ==
    \/ RefineStart
    \/ RefineRun
    \/ CallReturn

SpecRefine == InitCalls /\ [][NextRefine]_vars

TypeOK ==
    /\ file \in Files
    /\ pc \in {"idle", "loop", "notify", "store", "save"}
    /\ state \in Mappings
    /\ direction \in Directions
    /\ prev \in Directions

\* ------------------------------------------------------------ claims ----
\* the iteration described by ev classified a direction
SameDirection == ev.classified /\ direction = prev /\ prev \in Breakouts
Candidate == ev.classified /\ direction \in Breakouts /\ direction # prev
\* the iteration reached the corridor branch with direction "none"
BackInCorridor == ev.classified /\ direction = "none" /\ ev.news # "raise"
Opposite(x) == IF x = "up" THEN "down" ELSE "up"

\* C1: from an unseen ticker, four successive clean evaluations classified
\* up, up, none, up make a dispatch call in the first and in the fourth
\* and none in the second and third (run_once and run_agent_once).
C1_Debounce ==
    (trail.on /\ trail.dirs = <<"up", "up", "none", "up">>)
        => trail.fired = <<TRUE, FALSE, FALSE, TRUE>>

C3_SameDirectionSuppressed ==
    SameDirection =>
        /\ pc = "loop" /\ ev.done
        /\ ev.notify = "no" /\ ev.save = "no" /\ ~ev.wrote
        /\ state = ev.state0 /\ file = ev.file0
        /\ state[ev.tk] = prev

C3_Witness ==
    SameDirection /\ ev.done /\ prev = "up" /\ file.form = "object"

\* C4: an evaluation classified none makes no dispatch call; a stored up or
\* down becomes "none" and save_state is called with the new mapping (the
\* file holds it when the write completes); a stored none or an absent key
\* leaves mapping and file untouched.
C4_ReturnToCorridor ==
    BackInCorridor =>
        /\ ev.notify = "no"
        /\ (prev \in Breakouts /\ ev.done) =>
              /\ state = [ev.state0 EXCEPT ![ev.tk] = "none"]
              /\ ev.wrote /\ ev.save # "no"
              /\ (ev.save = "ok" => file = JsonFile(state))
        /\ prev = "none" =>
              /\ state = ev.state0 /\ file = ev.file0
              /\ ~ev.wrote /\ ev.save = "no"

C4_Witness ==
    /\ BackInCorridor /\ kind = "core" /\ ev.done /\ prev = "up"
    /\ state[ev.tk] = "none" /\ file = JsonFile(state)

C6_StateFollowsDispatch ==
    Candidate =>
        /\ ev.wrote => ev.notify = "ok"
        /\ ev.save # "no" => ev.wrote
        /\ ev.notify # "ok" => (state = ev.state0 /\ file = ev.file0)
        /\ ev.save = "ok" => file = JsonFile(state)
        /\ ev.done =>
              (ev.notify = "ok" <=>
                  /\ state = [ev.state0 EXCEPT ![ev.tk] = direction]
                  /\ ev.wrote /\ ev.save # "no")

C6_Witness ==
    /\ Candidate /\ ev.done /\ ev.notify = "ok" /\ ev.save = "ok"
    /\ state[ev.tk] = direction /\ file = JsonFile(state)

\* C7: a price fetch that raises or reports open 0 leaves mapping and file
\* unchanged, makes no dispatch call and moves on to the next ticker, in
\* run_once and in run_agent_once.
C7_PriceFailure ==
    ev.price \in {"raise", "zero"} =>
        /\ ev.notify = "no"
        /\ state = ev.state0 /\ file = ev.file0
        /\ pc = "loop" /\ ev.done

\* C8: once past the gate a run evaluates the tickers of its list once each
\* in list order, whatever fails, and then returns.
RunComplete == pc = "loop" /\ i = Len(tickers) + 1 /\ processed = tickers

C8_RunTerminates ==
    /\ [](pc # "idle" =>
            /\ Len(processed) <= Len(tickers)
            /\ processed = SubSeq(tickers, 1, Len(processed))
            /\ (i > Len(tickers) => RunComplete))
    /\ (pc # "idle") ~> (pc = "idle")

\* a two-ticker run is complete; the save of its first ticker failed (file
\* and memory still differ on it) and its second ticker was evaluated
C8_Witness ==
    /\ RunComplete /\ Len(tickers) = 2 /\ tickers[1] # tickers[2]
    /\ ev.tk = tickers[2] /\ ev.classified /\ ev.clean
    /\ state[tickers[1]] # load_state(file)[tickers[1]]

\* C9: between two ticker iterations the persisted mapping equals the
\* in-memory mapping, also after a failed save.
C9_PersistedEqualsMemory == pc = "loop" => load_state(file) = state

\* C10: whatever the advisory reply, send is true when |delta| >= threshold,
\* so a new breakout is dispatched.
C10_AdvisoryFloor ==
    (kind = "agent" /\ ev.classified /\ ev.news # "raise") =>
        /\ ev.floor => ev.send
        /\ (Candidate /\ ev.done) => ev.notify # "no"

\* C12: in run_agent_once, whatever the advisory reply (send_alert true
\* included), an evaluation classified none, or classified as the stored
\* direction, makes no dispatch call.
C12_DedupWithoutAdvisory ==
    (kind = "agent" /\ ev.classified
        /\ (direction = "none" \/ direction = prev))
        => (ev.notify = "no" /\ pc # "notify")

\* the LLM answered send_alert true below the threshold: nothing was sent
C12_Witness ==
    /\ kind = "agent" /\ client /\ ev.classified /\ ev.done
    /\ direction = "none" /\ ~ev.floor /\ ev.send
    /\ ev.notify = "no"

\* C16: in run_once with news enabled, a candidate new event is dispatched
\* whatever fails during enrichment.
C16_EnrichmentNeverFails ==
    (kind = "core" /\ news_on /\ Candidate /\ ev.done) => ev.notify # "no"

\* the direction the specification gives change d under magnitude m
DirectionOf(d, m) ==
    CHOOSE x \in Directions :
        /\ x = "up" <=> d >= m
        /\ x = "down" <=> (d <= 0 - m /\ ~(d >= m))
        /\ x = "none" <=> (d < m /\ d > 0 - m)

\* C13: for a threshold t > 0 the direction is up exactly when d >= t, down
\* exactly when d <= -t and none otherwise, boundaries included, and both
\* orchestrators classify alike.
C13_Classification ==
    (fn = "classify" /\ arg.t > 0) =>
        /\ ret.core = "up" <=> arg.d >= arg.t
        /\ ret.core = "down" <=> arg.d <= 0 - arg.t
        /\ ret.core = "none" <=> (arg.d < arg.t /\ arg.d > 0 - arg.t)
        /\ ret.agent = ret.core

C13_Witness ==
    /\ fn = "classify" /\ arg.t > 0 /\ arg.d = 0 - arg.t
    /\ ret.core = "down" /\ ret.agent = "down"

\* C14: for every threshold t, zero and negative included, the direction is
\* the one obtained with the magnitude |t|.
C14_ThresholdMagnitude ==
    fn = "classify" =>
        /\ ret.core = DirectionOf(arg.d, Abs(arg.t))
        /\ ret.agent = DirectionOf(arg.d, Abs(arg.t))

\* C20: an aggregator link with a url parameter resolves to exactly the
\* decoded value of that parameter, scheme-normalized, without a network
\* request, whether or not redirects are to be followed.
C20_RedirectParameter ==
    (fn = "extract" /\ arg.link.ok /\ arg.link.host = "news.google.com"
        /\ arg.link.q = "url") =>
        /\ ~ret.raised /\ ~ret.requested
        /\ ret.url = ArticleUrl(arg.link.id, unquote(arg.link.esc))

\* C19: for every limit >= 0, zero included, and every feed, fetch_headlines
\* returns at most limit headlines.
C19_HeadlineCount ==
    (fn = "fetch" /\ ~ret.raised) => Len(ret.items) <= arg.limit

\* C11: with no client, a raising call, content that does not parse, or an
\* empty or missing body, agent_summarize_and_decide returns the title, body
\* and click url of format_plain_push for the same inputs.
C11_ComposerFallback ==
    (fn = "compose"
        /\ (~arg.client \/ arg.doc.form # "dict" \/ arg.doc.body # "given"))
        => ret.out = format_plain_push(arg.ticker, arg.delta_pct, arg.headlines)

\* an LLM reply with title and click url but an empty body, headlines given
C11_Witness ==
    /\ fn = "compose" /\ arg.client /\ arg.doc.form = "dict"
    /\ arg.doc.body = "empty" /\ arg.doc.title = "given"
    /\ arg.doc.click = "given" /\ arg.headlines # <<>>
    /\ ret.out.title = "Stock Alert: AAPL"
    /\ ret.out.click = Click(arg.headlines[1].url)

NoTwoAlike(lines) ==
    \A m, n \in 1..Len(lines) : m # n => lines[m].url # lines[n].url

\* C18: of headlines that resolve to one canonical url a single one is
\* attached to the notification, in run_once and in run_agent_once.
C18_HeadlineDedup ==
    /\ (fn = "enrich" /\ ~ret.raised) => NoTwoAlike(ret.text)
    /\ (fn = "compose" /\ ret.out.body.by = "plain")
          => NoTwoAlike(ret.out.body.lines)

\* an entry as the claim reads it: a missing one is None
ReadAs(e) == IF e = "absent" THEN "none" ELSE e

\* C15: the history that starts with the ticker missing from the mapping
\* and the one that starts with it mapped to "none" make the same dispatch
\* decision in every run and store the same direction after every run.
C15_AbsentIsNone ==
    fn = "runs" =>
        /\ ret.absent.called = ret.none.called
        /\ ReadAs(ret.absent.stored[arg.tk]) = ReadAs(ret.none.stored[arg.tk])

\* both histories dispatched a first breakout; and the entries still differ
\* in the file after a run classified none
C15_Witness ==
    /\ fn = "runs" /\ arg.ran
    /\ \/ ret.absent.called /\ ret.none.called /\ arg.direction = "up"
          /\ ret.absent.stored[arg.tk] = "up"
       \/ arg.direction = "none" /\ ret.absent.stored[arg.tk] = "absent"
          /\ ret.none.stored[arg.tk] = "none"

\* C21: for every input, unparseable ones included, and every behaviour of
\* the network, _extract_original_url returns a URL and raises nothing.
C21_ResolverNeverRaises == fn = "extract" => ~ret.raised

\* C22: for a URL off the aggregator's domain family and a fixed behaviour
\* of the network, resolving the result again gives the result.
C22_ResolverIdempotent ==
    fn = "twice" =>
        /\ ~ret.first.raised /\ ~ret.second.raised
        /\ ret.second.url = ret.first.url

\* C23: a network request is made only after the url parameter, the
\* consent continue parameter and the path rewrite had their turn, and none
\* is made when resolve_redirects is false: the call then returns the
\* (possibly path-rewritten) URL.
C23_CheapStrategiesFirst ==
    fn = "extract" =>
        /\ ~arg.resolve_redirects => ~ret.requested
        /\ (~arg.resolve_redirects /\ ~ret.raised
              /\ arg.link.q = "none") =>
              ret.url = rewrite_path(ensure_https(arg.link))
        /\ ret.requested =>
              /\ ~(arg.link.host = "news.google.com" /\ arg.link.q = "url")
              /\ ~(arg.link.host = "consent.google.com"
                     /\ arg.link.q = "continue")
              /\ (arg.net.kind \in {"raise", "parked"} =>
                     ret.url = rewrite_path(ensure_https(arg.link)))

\* an /rss/articles/ link and redirects not to be followed: the rewritten
\* link comes back, no request made
C23_Witness ==
    /\ fn = "extract" /\ ~arg.resolve_redirects
    /\ arg.link.ok /\ arg.link.host = "news.google.com"
    /\ arg.link.path = "/rss/articles/" /\ arg.link.q = "none"
    /\ ~arg.link.scheme
    /\ ret.url.path = "/articles/" /\ ret.url.scheme /\ ~ret.requested

\* C25: for every configuration whose pause_on_closed is false, whatever
\* other keys it has, and every weekday and time, the market-hours check
\* of either orchestrator returns true.
C25_PauseOffOpens ==
    (fn = "market_hours" /\ ~arg.cfg.pause) => (ret.core_open /\ ret.agent_open)

\* C26: with pause_on_closed true and timezone, open and close given, the
\* check returns true exactly on a weekday of active_days at a time t with
\* open <= t < close.
C26_HalfOpenWindow ==
    (fn = "market_hours" /\ arg.cfg.pause /\ arg.cfg.keys = "A") =>
        LET open == /\ arg.wk \in DaysOf(arg.cfg.active_days)
                    /\ arg.cfg.open <= arg.t /\ arg.t < arg.cfg.close
        IN  ret.core_open = open /\ ret.agent_open = open

\* C24: a run fetches a price, dispatches or writes the state only if the
\* market-hours check answered open or a bypass flag of test_cfg is set;
\* with the check closed and no flag set the run ends at the gate: no price
\* fetch, no dispatch, no state write, the state file as it was.
C24_MarketGate ==
    fn = "gate" =>
        /\ (pc # "idle" \/ within) => (arg.open \/ arg.flag)
        /\ (~arg.open /\ ~arg.flag) =>
              /\ pc = "idle" /\ ~within
              /\ processed = <<>> /\ ev = NoEv
              /\ state = EmptyMapping
              /\ file = arg.file0

\* a closed gate in front of a state file that an earlier run wrote
C24_Witness ==
    /\ fn = "gate" /\ ~arg.open /\ ~arg.flag /\ pc = "idle"
    /\ file.form = "object" /\ file = arg.file0
    /\ \E tk \in Tickers : file.data[tk] \in Breakouts

\* the first iteration of a run that found no usable state file
FirstAfterBrokenLoad ==
    ev.tk # "-" /\ Len(processed) = 1 /\ ev.file0.form # "object"

\* C27: a state file that is missing, unreadable, not JSON or not a JSON
\* object loads as the empty mapping and the run goes on: every ticker is
\* taken as previously None, so a ticker in breakout is dispatched.
C27_TolerantLoad ==
    FirstAfterBrokenLoad =>
        /\ ev.state0 = EmptyMapping
        /\ ev.classified => prev = "none"
        /\ (ev.classified /\ direction \in Breakouts /\ ev.done)
              => ev.notify # "no"

\* C28: the iteration of one ticker leaves the entry of every other ticker
\* as it was at the start of the iteration, in the in-memory mapping and in
\* the state file, whether it dispatched, reset, did nothing or failed.
C28_PerTickerFrame ==
    ev.tk # "-" =>
        \A tk \in Tickers \ {ev.tk} :
            /\ state[tk] = ev.state0[tk]
            /\ load_state(file)[tk] = load_state(ev.file0)[tk]

C29_AgentRefinesCore ==
    fn = "refine" =>
        /\ ret.run_agent_once.called = ret.run_once.called
        /\ ReadAs(ret.run_agent_once.stored[arg.tk])
              = ReadAs(ret.run_once.stored[arg.tk])
====
